---------------------------- MODULE Spec2Model ----------------------------
(***************************************************************************)
(* Model of scraper.py (CIRJE workshop scraper): the text helpers, the     *)
(* decoder of fetch_html, the date resolver normalize_date, the five       *)
(* extractors parse_macro,                                                 *)
(* parse_urban, parse_stats, parse_empirical, parse_micro and the          *)
(* aggregator fetch_all.                                                   *)
(*                                                                         *)
(* A string is a sequence of characters; a character is a one-character    *)
(* TLA+ string, and a non-ASCII character is written by its code point     *)
(* ("U5E74" is the character U+5E74).  A page is the list of stripped,     *)
(* non-empty lines the extractors build from the fetched markup.           *)
(***************************************************************************)
EXTENDS Integers, Sequences, FiniteSets, Bags, TLC

VARIABLES
    TODAY,       \* scraper.py:26, the reference date, fixed for the run
    isoBasic,    \* whether date.fromisoformat accepts "YYYYMMDD" (Python >= 3.11)
    mode,        \* entry point: "all" (fetch_all) or the function called directly
    pc,          \* position of the run
    key,         \* fetch_all: index into PARSERS of the extractor being run
    lines,       \* the running label-scanning extractor's line list
    i,           \* its scan position (0-based, as in the code)
    last_date,   \* parse_empirical: the last date line seen (<<>> is None)
    divs,        \* parse_micro: the list page's event wrappers
    di,          \* parse_micro: number of wrappers consumed
    events,      \* the running extractor's local result list
    blocks,      \* ghost: per record of events, the block it was built from
    visited,     \* ghost: the scan position at the start of each outer iteration
    all_events,  \* fetch_all's aggregation list
    outcome,     \* ghost: per extractor key, how its call ended and with what
    concat,      \* ghost: all_events as it was just before the sort
    ndcall,      \* normalize_date called directly as the extractors call it:
                 \* the raw date line, strip_weekday of it (the argument) and
                 \* the result
    exc,         \* the exception raised and not handled: "none", "ValueError"
                 \* or "RequestException"
    fetched,     \* ghost: parse_micro: the wrappers (0-based) whose detail page
                 \* was requested
    resp         \* fetch_html called directly: the response body (content),
                 \* the text returned and the decoding that gave it

vars == << TODAY, isoBasic, mode, pc, key, lines, i, last_date, divs, di, events,
           blocks, visited, all_events, outcome, concat, ndcall, exc, fetched,
           resp >>

-----------------------------------------------------------------------------
(* Characters and strings                                                  *)

Uppers == <<"A","B","C","D","E","F","G","H","I","J","K","L","M",
            "N","O","P","Q","R","S","T","U","V","W","X","Y","Z">>
Lowers == <<"a","b","c","d","e","f","g","h","i","j","k","l","m",
            "n","o","p","q","r","s","t","u","v","w","x","y","z">>
Digits == <<"0","1","2","3","4","5","6","7","8","9">>

Range(s) == { s[k] : k \in 1..Len(s) }

IsUpper(c)  == c \in Range(Uppers)
IsLetter(c) == c \in Range(Uppers) \cup Range(Lowers)
IsDigit(c)  == c \in Range(Digits)
\* whitespace of str.strip() and of the regex class \s: space, ideographic space
IsSpace(c)  == c \in {" ", "U3000"}

\* str.lower() on one character
LowerChar(c) ==
    IF IsUpper(c) THEN Lowers[CHOOSE k \in 1..26 : Uppers[k] = c] ELSE c

\* str.lower()
Lower(s) == [k \in 1..Len(s) |-> LowerChar(s[k])]

\* str.startswith(p)
StartsWith(s, p) == Len(s) >= Len(p) /\ SubSeq(s, 1, Len(p)) = p

\* p in s
Contains(s, p) ==
    \E k \in 0..(Len(s) - Len(p)) : SubSeq(s, k + 1, k + Len(p)) = p

\* str.strip(chars) with the characters given as a set
StripSet(s, cs) ==
    LET keep == { k \in 1..Len(s) : s[k] \notin cs }
    IN  IF keep = {} THEN <<>>
        ELSE LET lo == CHOOSE k \in keep : \A j \in keep : k <= j
                 hi == CHOOSE k \in keep : \A j \in keep : k >= j
             IN  SubSeq(s, lo, hi)

\* str.rstrip(chars)
RStripSet(s, cs) ==
    LET keep == { k \in 1..Len(s) : s[k] \notin cs }
    IN  IF keep = {} THEN <<>>
        ELSE SubSeq(s, 1, CHOOSE k \in keep : \A j \in keep : k >= j)

\* str.strip()
Strip(s) == StripSet(s, {" ", "U3000"})

\* the characters of .strip("<U+201C><U+201D>\"") in the content capture
QuoteChars == {"U201C", "U201D", "\""}

\* ", ".join(content)
RECURSIVE Join(_)
Join(content) ==
    IF content = <<>> THEN <<>>
    ELSE IF Len(content) = 1 THEN content[1]
    ELSE content[1] \o <<",", " ">> \o Join(Tail(content))

\* length of the longest prefix of s made of digits
RECURSIVE LeadingDigits(_)
LeadingDigits(s) ==
    IF s = <<>> \/ ~IsDigit(Head(s)) THEN 0 ELSE 1 + LeadingDigits(Tail(s))

DigitVal(c) == (CHOOSE k \in 1..10 : Digits[k] = c) - 1

\* int() of a string of digits
RECURSIVE NumVal(_)
NumVal(s) ==
    IF s = <<>> THEN 0
    ELSE 10 * NumVal(SubSeq(s, 1, Len(s) - 1)) + DigitVal(s[Len(s)])

\* s[k:] for a 0-based k
From(s, k) == SubSeq(s, k + 1, Len(s))

-----------------------------------------------------------------------------
(* Calendar dates: datetime.date as a record [y, m, d]                     *)

Date(y, m, d) == [y |-> y, m |-> m, d |-> d]

IsLeap(y) == (y % 4 = 0 /\ y % 100 # 0) \/ y % 400 = 0

DaysIn(y, m) ==
    IF m = 2 THEN (IF IsLeap(y) THEN 29 ELSE 28)
    ELSE IF m \in {4, 6, 9, 11} THEN 30 ELSE 31

\* whether datetime.date(y, m, d) exists
ValidDate(y, m, d) == m \in 1..12 /\ d >= 1 /\ d <= DaysIn(y, m)

\* a < b on datetime.date
DateLT(a, b) ==
    \/ a.y < b.y
    \/ a.y = b.y /\ a.m < b.m
    \/ a.y = b.y /\ a.m = b.m /\ a.d < b.d

DateGE(a, b) == ~DateLT(a, b)

Pad2(n) == << Digits[((n \div 10) % 10) + 1], Digits[(n % 10) + 1] >>
Pad4(n) == Pad2(n \div 100) \o Pad2(n % 100)

\* date.isoformat(): "YYYY-MM-DD"
isoformat(d) == Pad4(d.y) \o <<"-">> \o Pad2(d.m) \o <<"-">> \o Pad2(d.d)

AllDigits(s) == \A k \in 1..Len(s) : IsDigit(s[k])

\* date.fromisoformat(s): [ok, d]; ok = FALSE is the ValueError it raises.
\* "YYYY-MM-DD" is accepted by every Python 3.7+, "YYYYMMDD" since 3.11.
fromisoformat(s) ==
    LET ext == /\ Len(s) = 10 /\ s[5] = "-" /\ s[8] = "-"
               /\ AllDigits(SubSeq(s, 1, 4))
               /\ AllDigits(SubSeq(s, 6, 7)) /\ AllDigits(SubSeq(s, 9, 10))
        bas == isoBasic /\ Len(s) = 8 /\ AllDigits(s)
        y  == NumVal(SubSeq(s, 1, 4))
        m  == IF ext THEN NumVal(SubSeq(s, 6, 7)) ELSE NumVal(SubSeq(s, 5, 6))
        d  == IF ext THEN NumVal(SubSeq(s, 9, 10)) ELSE NumVal(SubSeq(s, 7, 8))
    IN  IF (ext \/ bas) /\ y >= 1 /\ ValidDate(y, m, d)
        THEN [ok |-> TRUE, d |-> Date(y, m, d)]
        ELSE [ok |-> FALSE, d |-> Date(0, 0, 0)]

\* code-point order of the characters a date string can hold: '-' < '0' < .. < '9'
KeyChars == <<"-","0","1","2","3","4","5","6","7","8","9">>
Ord(c) == CHOOSE k \in 1..Len(KeyChars) : KeyChars[k] = c

\* a < b on str (lexicographic by code point)
RECURSIVE StrLT(_, _)
StrLT(a, b) ==
    IF b = <<>> THEN FALSE
    ELSE IF a = <<>> THEN TRUE
    ELSE IF Head(a) # Head(b) THEN Ord(Head(a)) < Ord(Head(b))
    ELSE StrLT(Tail(a), Tail(b))

-----------------------------------------------------------------------------
(* Labels and markers the code looks for                                   *)

L_past == <<"p","a","s","t"," ","s","e","m","i","n","a","r","s">>  \* past seminars
L_date == <<"d","a","t","e">>  \* date
L_speaker == <<"s","p","e","a","k","e","r">>  \* speaker
L_title == <<"t","i","t","l","e">>  \* title
L_venue == <<"v","e","n","u","e">>  \* venue
L_abstract == <<"a","b","s","t","r","a","c","t">>  \* abstract
L_and == <<"a","n","d">>  \* and
L_amp == <<"&">>  \* &
L_nichiji == <<"U65E5","U6642">>  \* U+65E5 U+6642, the Japanese date-and-time label
L_houkoku == <<"U5831","U544A">>  \* U+5831 U+544A, the Japanese report label
L_youshi == <<"U8981","U65E8">>  \* U+8981 U+65E8, the Japanese abstract marker
L_owari == <<"U4EE5","U4E0B","U672C","U5E74","U5EA6","U7D42","U4E86","U5206">>  \* the Japanese 'finished this year' heading
L_marker == <<"M","i","c","r","o","e","c","o","n","o","m","i","c"," ","T","h","e","o","r","y"," ","W","o","r","k","s","h","o","p">>  \* Microeconomic Theory Workshop
L_titlec == <<"t","i","t","l","e",":">>  \* title:
L_taitoru == <<"U30BF","U30A4","U30C8","U30EB",":">>  \* the katakana 'title' label followed by ':'
L_tba == <<"t","b","a">>  \* tba
S_TBA == <<"T","B","A">>  \* TBA
S_Sep == <<","," ">>  \* , 

MonthNames == <<
    <<"j","a","n","u","a","r","y">>,
    <<"f","e","b","r","u","a","r","y">>,
    <<"m","a","r","c","h">>,
    <<"a","p","r","i","l">>,
    <<"m","a","y">>,
    <<"j","u","n","e">>,
    <<"j","u","l","y">>,
    <<"a","u","g","u","s","t">>,
    <<"s","e","p","t","e","m","b","e","r">>,
    <<"o","c","t","o","b","e","r">>,
    <<"n","o","v","e","m","b","e","r">>,
    <<"d","e","c","e","m","b","e","r">> >>

OpenParens  == {"(", "UFF08"}     \* the regex class [U+FF08 (]
CloseParens == {")", "UFF09"}     \* the regex class [U+FF09 )]

-----------------------------------------------------------------------------
(* strip_weekday and normalize_date                                        *)

\* re.sub(r"[(].*?[)]", "", s): every match runs from an opening parenthesis
\* to the first closing parenthesis after it and is removed
RECURSIVE RemoveParens(_)
RemoveParens(s) ==
    IF s = <<>> THEN <<>>
    ELSE IF Head(s) \in OpenParens /\ \E q \in 2..Len(s) : s[q] \in CloseParens
    THEN LET q == CHOOSE q \in 2..Len(s) :
                      /\ s[q] \in CloseParens
                      /\ \A r \in 2..(q - 1) : s[r] \notin CloseParens
         IN  RemoveParens(From(s, q))
    ELSE <<Head(s)>> \o RemoveParens(Tail(s))

strip_weekday(s) == Strip(RemoveParens(s))

\* str.lstrip() of whitespace
RECURSIVE LStrip(_)
LStrip(s) == IF s # <<>> /\ IsSpace(Head(s)) THEN LStrip(Tail(s)) ELSE s

NoDate == [ok |-> FALSE, d |-> Date(0, 0, 0)]

\* du.parse(s, fuzzy=True, default=datetime(base_year, 1, 1)).date() on the
\* token shapes the pages carry: [ok, d], ok = FALSE being ParserError/ValueError.
\*   "<Month> <D>"          -> (base_year, Month, D)
\*   "<Month> <D>, <YYYY>"  -> (YYYY, Month, D)
\*   "<YYYY>U+5E74<M>U+6708<D>U+65E5" -> (base_year, M, D): the fuzzy parser skips
\*       the unknown kanji tokens and drops the number before U+5E74, which
\*       cannot be a day, so the year written in the token is not used
\*   anything else holds no date
\* Text after the day (a time range) does not change the date.
DuParse(s, base_year) ==
    LET low  == Lower(s)
        isEN == \E k \in 1..12 : StartsWith(low, MonthNames[k])
        mon  == CHOOSE k \in 1..12 : StartsWith(low, MonthNames[k])
        r1   == From(s, Len(MonthNames[mon]))
        r2   == LStrip(r1)
        nd   == LeadingDigits(r2)
        r3   == From(r2, nd)
        hasY == StartsWith(r3, S_Sep) /\ LeadingDigits(From(r3, 2)) = 4
        yEN  == IF hasY THEN NumVal(SubSeq(r3, 3, 6)) ELSE base_year
        dEN  == NumVal(SubSeq(r2, 1, nd))
        j1   == From(s, 5)
        n1   == LeadingDigits(j1)
        j2   == From(j1, n1 + 1)
        n2   == LeadingDigits(j2)
        isJP == /\ LeadingDigits(s) = 4 /\ Len(s) >= 5 /\ s[5] = "U5E74"
                /\ n1 \in 1..2 /\ Len(j1) > n1 /\ j1[n1 + 1] = "U6708"
                /\ n2 \in 1..2 /\ Len(j2) > n2 /\ j2[n2 + 1] = "U65E5"
        mJP  == NumVal(SubSeq(j1, 1, n1))
        dJP  == NumVal(SubSeq(j2, 1, n2))
    IN  IF isEN /\ r1 # <<>> /\ IsSpace(Head(r1)) /\ nd \in 1..2
        THEN IF ValidDate(yEN, mon, dEN)
             THEN [ok |-> TRUE, d |-> Date(yEN, mon, dEN)] ELSE NoDate
        ELSE IF isJP
        THEN IF ValidDate(base_year, mJP, dJP)
             THEN [ok |-> TRUE, d |-> Date(base_year, mJP, dJP)] ELSE NoDate
        ELSE NoDate

\* the default year every label-scanning extractor passes
base_year == 2025

\* normalize_date: [kind, d] with kind "date" (d returned), "none" (None
\* returned) or "raise" (d.replace(year=...) raises ValueError outside the try)
normalize_date(date_raw, by) ==
    LET p == DuParse(date_raw, by)
    IN  IF ~p.ok THEN [kind |-> "none", d |-> p.d]
        ELSE IF DateLT(p.d, TODAY) /\ p.d.m <= 3
        THEN IF ValidDate(p.d.y + 1, p.d.m, p.d.d)
             THEN [kind |-> "date", d |-> Date(p.d.y + 1, p.d.m, p.d.d)]
             ELSE [kind |-> "raise", d |-> p.d]
        ELSE [kind |-> "date", d |-> p.d]

\* the filter without its comparison against TODAY
Upcoming_unfiltered(r) == r.kind = "date"

\* "if d and d >= TODAY" of the label-scanning extractors
Upcoming(r) == r.kind = "date" /\ DateGE(r.d, TODAY)

-----------------------------------------------------------------------------
(* The label-scanning extractors.  Each parse_*_iter is one iteration of   *)
(* the extractor's outer while loop, started at scan position k: it gives  *)
(* how the iteration ends ("cont": back to the loop test, "break": the     *)
(* loop is left, or the name of the exception that leaves the function),   *)
(* the new scan position, the record appended (if any) and, as a ghost,    *)
(* the block the record was built from.                                    *)

\* lines[k]
Line(ls, k) == ls[k + 1]

Rec(date, ws, info) == [date |-> date, ws |-> ws, info |-> info]

Res(st, k, new, blk) == [st |-> st, i |-> k, new |-> new, blk |-> blk]

\* ghost: the position of the content label (the line before the first
\* captured line), the raw date line, the captured content list and the scan
\* position after the capture
Blk(label, tok, content, stop) ==
    [label |-> label, tok |-> tok, content |-> content, stop |-> stop]

\* what every extractor does with a captured block: drop it when nothing was
\* captured, else join the lines, resolve the date and emit when upcoming
EmitOrSkip(ws, label, tok, date_raw, content, stop) ==
    LET info == Join(content)
        d    == normalize_date(date_raw, base_year)
    IN  IF content = <<>> THEN Res("cont", stop, <<>>, <<>>)
        ELSE IF d.kind = "raise" THEN Res("ValueError", stop, <<>>, <<>>)
        ELSE IF Upcoming(d)
        THEN Res("cont", stop, << Rec(isoformat(d.d), ws, info) >>,
                 << Blk(label, tok, content, stop) >>)
        ELSE Res("cont", stop, <<>>, <<>>)

\* ---- parse_macro ----

\* while i < n and not lines[i].lower().startswith("speaker"): i += 1
RECURSIVE macro_seek(_, _)
macro_seek(ls, k) ==
    IF k < Len(ls) /\ ~StartsWith(Lower(Line(ls, k)), L_speaker)
    THEN macro_seek(ls, k + 1) ELSE k

\* the content loop: up to the next "date" line, "title" lines skipped
RECURSIVE macro_capture(_, _, _)
macro_capture(ls, k, content) ==
    IF k < Len(ls) /\ ~StartsWith(Lower(Line(ls, k)), L_date)
    THEN IF StartsWith(Lower(Line(ls, k)), L_title)
         THEN macro_capture(ls, k + 1, content)
         ELSE macro_capture(ls, k + 1,
                            Append(content, StripSet(Line(ls, k), QuoteChars)))
    ELSE [i |-> k, content |-> content]

parse_macro_iter(ls, k) ==
    LET n   == Len(ls)
        k2  == macro_seek(ls, k + 2)
        cap == macro_capture(ls, k2 + 1, <<>>)
    IN  IF Contains(Lower(Line(ls, k)), L_past) THEN Res("break", k, <<>>, <<>>)
        ELSE IF StartsWith(Lower(Line(ls, k)), L_date)
        THEN IF k + 1 >= n THEN Res("break", k, <<>>, <<>>)
             ELSE IF k2 >= n - 1 THEN Res("break", k2, <<>>, <<>>)
             ELSE EmitOrSkip("Macroeconomics WS", k2, Line(ls, k + 1),
                             strip_weekday(Line(ls, k + 1)), cap.content, cap.i)
        ELSE Res("cont", k + 1, <<>>, <<>>)

\* ---- parse_urban ----

\* LABEL_RE = ^(nichiji|Venue|houkoku|Speaker), re.I
urban_LABEL_RE(l) ==
    \E p \in {L_nichiji, L_venue, L_houkoku, L_speaker} : StartsWith(Lower(l), p)

\* ABS_RE = (abstract|youshi), re.I
urban_ABS_RE(l) == Contains(Lower(l), L_abstract) \/ Contains(l, L_youshi)

\* no search: the line after the date value is taken for the report label
urban_seek_none(ls, k) == k

RECURSIVE urban_seek(_, _)
urban_seek(ls, k) ==
    IF k < Len(ls) /\ ~StartsWith(Line(ls, k), L_houkoku)
    THEN urban_seek(ls, k + 1) ELSE k

RECURSIVE urban_capture(_, _, _)
urban_capture(ls, k, content) ==
    IF /\ k < Len(ls)
       /\ ~StartsWith(Line(ls, k), L_nichiji)
       /\ ~urban_LABEL_RE(Line(ls, k))
       /\ ~urban_ABS_RE(Line(ls, k))
    THEN urban_capture(ls, k + 1,
                       Append(content, StripSet(Line(ls, k), QuoteChars)))
    ELSE [i |-> k, content |-> content]

parse_urban_iter(ls, k) ==
    LET n   == Len(ls)
        k2  == urban_seek(ls, k + 2)
        cap == urban_capture(ls, k2 + 1, <<>>)
    IN  IF Contains(Lower(Line(ls, k)), L_past) THEN Res("break", k, <<>>, <<>>)
        ELSE IF StartsWith(Line(ls, k), L_nichiji)
        THEN IF k + 1 >= n THEN Res("break", k, <<>>, <<>>)
             ELSE IF k2 >= n - 1 THEN Res("break", k2, <<>>, <<>>)
             ELSE EmitOrSkip("Urban Economics WS", k2, Line(ls, k + 1),
                             strip_weekday(Line(ls, k + 1)), cap.content, cap.i)
        ELSE Res("cont", k + 1, <<>>, <<>>)

\* ---- parse_stats ----

\* LABEL_RE = ^(nichiji|Venue|houkoku|Speaker), re.I
stats_LABEL_RE(l) ==
    \E p \in {L_nichiji, L_venue, L_houkoku, L_speaker} : StartsWith(Lower(l), p)

\* ABS_RE = abstract, re.I
stats_ABS_RE(l) == Contains(Lower(l), L_abstract)

RECURSIVE stats_seek(_, _)
stats_seek(ls, k) ==
    IF k < Len(ls) /\ ~StartsWith(Line(ls, k), L_houkoku)
    THEN stats_seek(ls, k + 1) ELSE k

RECURSIVE stats_capture(_, _, _)
stats_capture(ls, k, content) ==
    IF /\ k < Len(ls)
       /\ ~StartsWith(Line(ls, k), L_nichiji)
       /\ ~stats_ABS_RE(Line(ls, k))
       /\ ~stats_LABEL_RE(Line(ls, k))
    THEN stats_capture(ls, k + 1,
                       Append(content, StripSet(Line(ls, k), QuoteChars)))
    ELSE [i |-> k, content |-> content]

parse_stats_iter(ls, k) ==
    LET n   == Len(ls)
        k2  == stats_seek(ls, k + 2)
        cap == stats_capture(ls, k2 + 1, <<>>)
    IN  IF StartsWith(Line(ls, k), L_nichiji)
        THEN IF k + 1 >= n THEN Res("break", k, <<>>, <<>>)
             ELSE IF k2 >= n - 1 THEN Res("break", k2, <<>>, <<>>)
             ELSE EmitOrSkip("Applied Statistics WS", k2, Line(ls, k + 1),
                             strip_weekday(Line(ls, k + 1)), cap.content, cap.i)
        ELSE Res("cont", k + 1, <<>>, <<>>)

\* ---- parse_empirical ----

MonthAbbrevs == { SubSeq(MonthNames[k], 1, 3) : k \in 1..12 }

\* DATE_RE = (Jan|..|Dec)[a-z]*\s+\d{1,2}, re.I, searched anywhere in the line
emp_DATE_RE(l) ==
    LET low == Lower(l)
    IN  \E p \in 1..(Len(l) - 2) :
          /\ SubSeq(low, p, p + 2) \in MonthAbbrevs
          /\ \E q \in (p + 3)..Len(l) :
               /\ \A r \in (p + 3)..(q - 1) : IsLetter(l[r])
               /\ IsSpace(l[q])
               /\ \E t \in (q + 1)..Len(l) :
                    /\ \A r \in q..(t - 1) : IsSpace(l[r])
                    /\ IsDigit(l[t])

\* ST_RE = speaker\s*(?:&|and)\s*title, re.I, searched anywhere in the line
emp_ST_RE(l) ==
    LET low == Lower(l)
    IN  \E p \in 0..(Len(l) - 1) :
          /\ StartsWith(From(low, p), L_speaker)
          /\ LET a == LStrip(From(low, p + Len(L_speaker)))
             IN  \/ StartsWith(a, L_amp)
                    /\ StartsWith(LStrip(From(a, Len(L_amp))), L_title)
                 \/ StartsWith(a, L_and)
                    /\ StartsWith(LStrip(From(a, Len(L_and))), L_title)

\* LABEL_RE = ^(date|venue|speaker), re.I
emp_LABEL_RE(l) ==
    \E p \in {L_date, L_venue, L_speaker} : StartsWith(Lower(l), p)

\* ABS_RE = abstract, re.I
emp_ABS_RE(l) == Contains(Lower(l), L_abstract)

\* a capture started on the label line itself (j = i): LABEL_RE stops it there
emp_capture_from_label(ls, j, content) == [i |-> j - 1, content |-> content]

RECURSIVE emp_capture(_, _, _)
emp_capture(ls, j, content) ==
    IF j < Len(ls) /\ ~emp_LABEL_RE(Line(ls, j)) /\ ~emp_ABS_RE(Line(ls, j))
    THEN emp_capture(ls, j + 1,
                     Append(content, StripSet(Line(ls, j), QuoteChars)))
    ELSE [i |-> j, content |-> content]

\* one iteration; ld is last_date on entry, the result's ld is last_date on exit
parse_empirical_iter(ls, k, ld) ==
    LET txt == Line(ls, k)
        cap == emp_capture(ls, k + 1, <<>>)
        keep(r) == [st |-> r.st, i |-> r.i, new |-> r.new, blk |-> r.blk, ld |-> ld]
    IN  IF Contains(Lower(txt), L_past) \/ Contains(txt, L_owari)
        THEN keep(Res("break", k, <<>>, <<>>))
        ELSE IF emp_DATE_RE(txt)
        THEN [st |-> "cont", i |-> k + 1, new |-> <<>>, blk |-> <<>>,
              ld |-> strip_weekday(txt)]
        ELSE IF emp_ST_RE(txt)
        THEN IF ld = <<>> \/ cap.content = <<>>
             THEN keep(Res("cont", cap.i, <<>>, <<>>))
             ELSE keep(EmitOrSkip("Empirical Micro WS", k, ld, ld,
                                  cap.content, cap.i))
        ELSE keep(Res("cont", k + 1, <<>>, <<>>))

\* ---- parse_micro ----

\* s.split(sep)[0]
SplitBefore(s, sep) ==
    IF Contains(s, sep)
    THEN LET k == CHOOSE k \in 0..(Len(s) - Len(sep)) :
                      /\ SubSeq(s, k + 1, k + Len(sep)) = sep
                      /\ \A j \in 0..(k - 1) : SubSeq(s, j + 1, j + Len(sep)) # sep
         IN  SubSeq(s, 1, k)
    ELSE s

\* s.split(sep, 1)[-1]
SplitAfter(s, sep) ==
    IF Contains(s, sep) THEN From(s, Len(SplitBefore(s, sep)) + Len(sep)) ELSE s

\* the for loop over the detail page's lines; <<>> stands for None and ""
RECURSIVE micro_scan(_, _, _, _)
micro_scan(ls, k, author, title) ==
    IF k > Len(ls) THEN [author |-> author, title |-> title]
    ELSE LET ln == ls[k]
             a  == IF Contains(ln, L_marker)
                   THEN RStripSet(StripSet(SplitBefore(ln, L_marker), {"U3000", " "}),
                                  {" ", "U3000"})
                   ELSE author
             t  == IF StartsWith(Lower(ln), L_titlec) \/ StartsWith(Lower(ln), L_taitoru)
                   THEN Strip(SplitAfter(SplitAfter(ln, <<":">>), <<"UFF1A">>))
                   ELSE title
         IN  IF a # <<>> /\ t # <<>> THEN [author |-> a, title |-> t]
             ELSE micro_scan(ls, k + 1, a, t)

\* the info of a detail page's speaker and title
micro_info(author, title) ==
    IF Contains(Lower(author \o title), L_tba) THEN S_TBA
    ELSE author \o S_Sep \o title

\* a check that asks for the speaker only
micro_incomplete_speaker_only(author, title) == author = <<>>

\* "if not author or not title"
micro_incomplete(author, title) == author = <<>> \/ title = <<>>

\* whether the iteration on wrapper div reaches fetch_html(a["href"])
micro_fetches(div) ==
    /\ div.time
    /\ fromisoformat(SplitBefore(div.dt, <<"T">>)).ok
    /\ ~DateLT(fromisoformat(SplitBefore(div.dt, <<"T">>)).d, TODAY)
    /\ div.link

\* one iteration of the for loop over the event wrappers, on wrapper div:
\*   time   - the wrapper has a <time> with a datetime attribute
\*   dt     - that attribute's value
\*   link   - the wrapper has the title link with an href
\*   fetch  - fetch_html of the detail page returns (FALSE: it raises)
\*   detail - the detail page's lines
parse_micro_iter(div, k) ==
    LET d_iso == SplitBefore(div.dt, <<"T">>)
        f     == fromisoformat(d_iso)
        at    == micro_scan(div.detail, 1, <<>>, <<>>)
    IN  IF ~div.time THEN Res("cont", k + 1, <<>>, <<>>)
        ELSE IF ~f.ok THEN Res("ValueError", k, <<>>, <<>>)
        ELSE IF DateLT(f.d, TODAY) THEN Res("cont", k + 1, <<>>, <<>>)
        ELSE IF ~div.link THEN Res("cont", k + 1, <<>>, <<>>)
        ELSE IF ~div.fetch THEN Res("RequestException", k, <<>>, <<>>)
        ELSE IF micro_incomplete(at.author, at.title)
        THEN Res("cont", k + 1, <<>>, <<>>)
        ELSE Res("cont", k + 1,
                 << Rec(d_iso, "Micro Theory WS", micro_info(at.author, at.title)) >>,
                 << Blk(k, div.dt, << at.author, at.title >>, k + 1) >>)

-----------------------------------------------------------------------------
(* fetch_all                                                               *)

\* PARSERS, in insertion order
PARSERS == << "macro", "urban", "stats", "emf", "micro" >>

\* an insertion that puts a record before the records of equal key
RECURSIVE InsertByDate_unstable(_, _)
InsertByDate_unstable(s, r) ==
    IF s = <<>> THEN << r >>
    ELSE IF ~StrLT(Head(s).date, r.date) THEN << r >> \o s
    ELSE << Head(s) >> \o InsertByDate_unstable(Tail(s), r)

\* list.sort(key=lambda x: x["date"]) is a stable sort on the date strings:
\* each record goes after every record whose key is not greater than its own
RECURSIVE InsertByDate(_, _)
InsertByDate(s, r) ==
    IF s = <<>> THEN << r >>
    ELSE IF StrLT(r.date, Head(s).date) THEN << r >> \o s
    ELSE << Head(s) >> \o InsertByDate(Tail(s), r)

RECURSIVE SortFrom(_, _)
SortFrom(acc, rest) ==
    IF rest = <<>> THEN acc
    ELSE SortFrom(InsertByDate(acc, Head(rest)), Tail(rest))

SortByDate(s) == SortFrom(<<>>, s)

\* a handler placed around the for loop: the loop is over after an exception
AfterExcept_abort(k) == Len(PARSERS) + 1

\* "except Exception as e: print(...)": the exception is logged and the for
\* loop goes on with the extractor after the one that raised
AfterExcept(k) == k + 1

-----------------------------------------------------------------------------
(* The pages: lines as the sources carry them                              *)

M_Date == <<"D","a","t","e"," ","&"," ","T","i","m","e",":">>  \* Date & Time:
M_Venue == <<"V","e","n","u","e",":"," ","R","o","o","m"," ","1">>  \* Venue: Room 1
M_Speaker == <<"S","p","e","a","k","e","r",":">>  \* Speaker:
M_Title == <<"T","i","t","l","e",":">>  \* Title:
M_Past == <<"P","a","s","t"," ","S","e","m","i","n","a","r","s">>  \* Past Seminars
U_Date == <<"U65E5","U6642">>  \* the Japanese date-and-time label
U_Report == <<"U5831","U544A">>  \* the Japanese report label
U_Abs == <<"U8981","U65E8">>  \* the Japanese abstract marker
E_ST == <<"S","p","e","a","k","e","r"," ","&"," ","T","i","t","l","e",":">>  \* Speaker & Title:
E_Past == <<"U4EE5","U4E0B","U672C","U5E74","U5EA6","U7D42","U4E86","U5206">>  \* the Japanese 'finished this year' heading
C_Bob == <<"B","o","b">>  \* Bob
C_Ann == <<"A","n","n">>  \* Ann
C_Growth == <<"\"","O","n"," ","G","r","o","w","t","h","\"">>  \* "On Growth"
C_TBA == <<"T","B","A">>  \* TBA
C_Tba == <<"T","i","t","l","e"," ","t","b","a">>  \* Title tba
C_Quotes == <<"U201C","U201D">>  \* a line of U+201C U+201D only
C_Abstract == <<"A","b","s","t","r","a","c","t">>  \* Abstract
T_Jul10 == <<"J","u","l","y"," ","1","0"," ","(","T","h","u",")">>  \* July 10 (Thu)
T_Jul10Time == <<"J","u","l","y"," ","1","0"," ","(","T","h","u",")"," ","1","0",":","2","5","-","1","2",":","1","0">>  \* July 10 (Thu) 10:25-12:10
T_Feb2 == <<"F","e","b","r","u","a","r","y"," ","2">>  \* February 2
T_Feb29 == <<"F","e","b","r","u","a","r","y"," ","2","9">>  \* February 29
T_Feb29_2024 == <<"F","e","b","r","u","a","r","y"," ","2","9",","," ","2","0","2","4">>  \* February 29, 2024
T_Feb10_2025 == <<"F","e","b","r","u","a","r","y"," ","1","0",","," ","2","0","2","5">>  \* February 10, 2025
T_Jul10_2024 == <<"J","u","l","y"," ","1","0",","," ","2","0","2","4">>  \* July 10, 2024
T_JP_Jul10 == <<"2","0","2","5","U5E74","7","U6708","1","0","U65E5">>  \* 2025 U+5E74 7 U+6708 10 U+65E5
T_JP_Jul10W == <<"2","0","2","5","U5E74","7","U6708","1","0","U65E5","UFF08","U6728","UFF09">>  \* the same followed by a full-width parenthesised weekday
T_JP_Sep10_2024 == <<"2","0","2","4","U5E74","9","U6708","1","0","U65E5">>  \* 2024 U+5E74 9 U+6708 10 U+65E5
T_JP_Feb2 == <<"2","0","2","5","U5E74","2","U6708","2","U65E5">>  \* 2025 U+5E74 2 U+6708 2 U+65E5
T_None == <<"T","B","D">>  \* TBD
D_Author == <<"B","o","b"," ","M","i","c","r","o","e","c","o","n","o","m","i","c"," ","T","h","e","o","r","y"," ","W","o","r","k","s","h","o","p">>  \* Bob Microeconomic Theory Workshop
D_AuthorT == <<"S","c","o","t","t"," ","M","i","c","r","o","e","c","o","n","o","m","i","c"," ","T","h","e","o","r","y"," ","W","o","r","k","s","h","o","p">>  \* Scott Microeconomic Theory Workshop
D_NoAuthor == <<"M","i","c","r","o","e","c","o","n","o","m","i","c"," ","T","h","e","o","r","y"," ","W","o","r","k","s","h","o","p">>  \* Microeconomic Theory Workshop
D_Title == <<"T","i","t","l","e",":"," ","G","a","m","e","s">>  \* Title: Games
D_TitleBa == <<"T","i","t","l","e",":"," ","b","a","r","g","a","i","n","i","n","g">>  \* Title: bargaining
D_TitleTBA == <<"T","i","t","l","e",":"," ","t","b","a">>  \* Title: tba
D_Other == <<"V","e","n","u","e",":"," ","R","o","o","m"," ","2">>  \* Venue: Room 2
A_Sep10 == <<"2","0","2","5","-","0","9","-","1","0","T","1","0",":","0","0",":","0","0">>  \* 2025-09-10T10:00:00
A_Sep05c == <<"2","0","2","5","0","9","0","5">>  \* 20250905
A_Jun01 == <<"2","0","2","5","-","0","6","-","0","1">>  \* 2025-06-01
A_Sep12 == <<"2","0","2","5","-","0","9","-","1","2">>  \* 2025-09-12
A_Bad == <<"2","0","2","5","-","0","9","-","1","0"," ","1","0",":","0","0">>  \* 2025-09-10 10:00

\* the most segments a directly parsed page is built from
MaxSegs == 2
\* the most event wrappers a directly parsed list page holds
MaxDivs == 2

SeqsUpTo(S, n) == UNION { [1..k -> S] : k \in 0..n }

RECURSIVE Flatten(_)
Flatten(ss) == IF ss = <<>> THEN <<>> ELSE Head(ss) \o Flatten(Tail(ss))

PagesOf(segs) == { Flatten(p) : p \in SeqsUpTo(segs, MaxSegs) }

MacroSegs ==
    { <<M_Date, tok, M_Speaker>> \o c :
        tok \in {T_Jul10, T_Feb2, T_Feb29_2024},
        c \in { <<C_Bob, M_Title, C_Growth>>, <<C_TBA>>, <<C_Quotes>>, <<C_Abstract>> } }
    \cup { <<M_Past>>, <<M_Date>>, <<M_Date, T_Jul10, M_Venue>>, <<C_Ann>> }

UrbanSegs ==
    { <<U_Date, tok, U_Report>> \o c :
        tok \in {T_JP_Jul10W, T_JP_Sep10_2024, T_None},
        c \in { <<C_Bob, C_Growth>>, <<C_Tba>>, <<C_Quotes>>, <<U_Abs>> } }
    \cup { <<M_Past>>, <<U_Date>>, <<U_Date, T_JP_Jul10, M_Venue>>, <<C_Ann>>,
           <<U_Date, T_JP_Jul10, U_Report, C_Ann, M_Title, C_Growth>> }

StatsSegs ==
    { <<U_Date, tok, U_Report>> \o c :
        tok \in {T_JP_Feb2, T_Feb10_2025, T_Jul10_2024},
        c \in { <<C_Bob>>, <<C_TBA, C_Growth>>, <<C_Quotes>>, <<C_Abstract>> } }
    \cup { <<M_Past>>, <<U_Date>>, <<U_Date, T_Feb29, M_Speaker>>, <<C_Ann>> }

EmpiricalSegs ==
    { <<tok, E_ST>> \o c :
        tok \in {T_Jul10Time, T_Feb2, T_Feb29_2024},
        c \in { <<C_Bob, C_Growth>>, <<C_TBA>>, <<C_Quotes>>, <<C_Abstract>> } }
    \cup { <<E_Past>>, <<E_ST, C_Ann>>, <<M_Venue>>, <<T_Jul10>> }

SegsOf(p) ==
    CASE p = "macro" -> MacroSegs
      [] p = "urban" -> UrbanSegs
      [] p = "stats" -> StatsSegs
      [] p = "emf"   -> EmpiricalSegs

Div(time, dt, link, fetch, detail) ==
    [time |-> time, dt |-> dt, link |-> link, fetch |-> fetch, detail |-> detail]

MicroDivs ==
    { Div(TRUE, dt, TRUE, TRUE, det) :
        dt \in {A_Sep10, A_Sep05c, A_Jun01},
        det \in { <<D_Other, D_Author, D_Title>>, <<D_AuthorT, D_TitleBa>> } }
    \cup { Div(TRUE, A_Sep12, TRUE, TRUE, det) :
        det \in { <<D_Author>>, <<D_Author, D_TitleTBA>>, <<D_NoAuthor, D_Title>> } }
    \cup { Div(FALSE, <<>>, TRUE, TRUE, <<D_Author, D_Title>>),
           Div(TRUE, A_Sep12, FALSE, TRUE, <<D_Author, D_Title>>),
           Div(TRUE, A_Sep12, TRUE, FALSE, <<>>),
           Div(TRUE, A_Bad, TRUE, TRUE, <<D_Author, D_Title>>) }

MicroPages == SeqsUpTo(MicroDivs, MaxDivs)

\* the pages fetch_all's extractors are given
AllPages(p) ==
    CASE p = "macro" ->
           { <<M_Date, T_Jul10, M_Speaker, C_Bob, M_Date, T_Jul10, M_Speaker, C_Ann>>,
             <<M_Date, T_Feb2, M_Speaker, C_Bob>> }
      [] p = "urban" ->
           { <<U_Date, T_JP_Jul10W, U_Report, C_Bob>>,
             <<U_Date, T_JP_Sep10_2024, U_Report, C_Ann, U_Date, T_JP_Jul10, U_Report, C_Bob>> }
      [] p = "stats" ->
           { <<U_Date, T_JP_Feb2, U_Report, C_Ann>>,
             <<U_Date, T_JP_Sep10_2024, U_Report, C_Bob, U_Date, T_Feb29_2024, U_Report, C_Ann>> }
      [] p = "emf" ->
           { <<T_Jul10Time, E_ST, C_Bob>>, <<T_Feb2, E_ST, C_Ann, M_Venue>> }
      [] p = "micro" ->
           { << Div(TRUE, A_Sep10, TRUE, TRUE, <<D_Author, D_Title>>) >>,
             << Div(TRUE, A_Sep12, TRUE, TRUE, <<D_Author, D_Title>>),
                Div(TRUE, A_Sep05c, TRUE, TRUE, <<D_AuthorT, D_TitleBa>>) >>,
             << Div(TRUE, A_Sep10, TRUE, TRUE, <<D_AuthorT, D_Title>>),
                Div(TRUE, A_Bad, TRUE, TRUE, <<D_Author, D_Title>>) >> }

\* the reference dates of the runs
Todays == { Date(2025, 7, 1), Date(2025, 9, 1) }

\* the date tokens and reference dates normalize_date is called on directly
DateTokens ==
    { T_Jul10, T_Jul10Time, T_Feb2, T_Feb29, T_Feb29_2024, T_Feb10_2025,
      T_Jul10_2024, T_JP_Jul10, T_JP_Jul10W, T_JP_Sep10_2024, T_JP_Feb2, T_None }

DirectTodays ==
    { Date(2024, 2, 1), Date(2025, 1, 15), Date(2025, 2, 2), Date(2025, 2, 3),
      Date(2025, 7, 1), Date(2025, 7, 10), Date(2025, 7, 11), Date(2025, 9, 1),
      Date(2026, 2, 11) }

-----------------------------------------------------------------------------
(* fetch_html: the decoding of a response body.  A body is a sequence of   *)
(* bytes (0..255).  A decoded text is a sequence of characters, each given *)
(* by the coded character set the codec maps to Unicode from:              *)
(*   "ascii" a : the ASCII character of byte a                             *)
(*   "kana"  a : the half-width katakana of JIS X 0201 byte a (A1..DF)     *)
(*   "jis" a b : the JIS X 0208 character of row a, cell b                 *)
(*   "ms"  a b : a character of cp932 that is not Shift_JIS's character of *)
(*               that position (an extension, or one of the six cells the  *)
(*               two codecs map differently); a single byte has b = 0      *)
(*   "ucs" a   : the non-ASCII code point a, decoded from UTF-8            *)
(*   "latin1" a: the ISO-8859-1 character of byte a (resp.text)            *)

\* the encodings of the for loop, in its order
ENCODINGS == << "utf-8", "euc_jp", "shift_jis", "cp932" >>

Ch(set, a, b) == [set |-> set, a |-> a, b |-> b]

\* a decode raised UnicodeDecodeError
DecodeError == [ok |-> FALSE, text |-> <<>>]

\* the character decoded first, then the decoding of the rest
Cons(c, rest) == IF rest.ok THEN [ok |-> TRUE, text |-> <<c>> \o rest.text]
                 ELSE DecodeError

\* the cells of JIS X 0208 that hold a character
JisAssigned(r, c) ==
    /\ c \in 1..94
    /\ \/ r = 1
       \/ r = 2 /\ c \in (1..14) \cup (26..33) \cup (42..48) \cup (60..74)
                         \cup (82..89) \cup {94}
       \/ r = 3 /\ c \in (16..25) \cup (33..58) \cup (65..90)
       \/ r = 4 /\ c \in 1..83
       \/ r = 5 /\ c \in 1..86
       \/ r = 6 /\ c \in (1..24) \cup (33..56)
       \/ r = 7 /\ c \in (1..33) \cup (49..81)
       \/ r = 8 /\ c \in 1..32
       \/ r \in 16..46
       \/ r = 47 /\ c \in 1..51
       \/ r \in 48..83
       \/ r = 84 /\ c \in 1..6

\* the cells cp932 adds to them: NEC row 13, the NEC-selected IBM rows 89..92,
\* the user-defined rows 95..114 and the IBM rows 115..119
MsAssigned(r, c) ==
    /\ c \in 1..94
    /\ \/ r = 13 /\ c \in (1..30) \cup (32..54) \cup (63..92)
       \/ r \in 89..91
       \/ r = 92 /\ c \in (1..78) \cup (81..94)
       \/ r \in 95..118
       \/ r = 119 /\ c \in 1..12

\* the JIS X 0208 cells cp932 maps to another character than shift_jis does
MsDiffers == { <<1, 33>>, <<1, 34>>, <<1, 61>>, <<1, 81>>, <<1, 82>>, <<2, 44>> }

\* bytes.decode("utf-8"): well-formed sequences only (no overlong forms, no
\* surrogates, nothing above U+10FFFF)
RECURSIVE decode_utf8(_)
decode_utf8(bs) ==
    IF bs = <<>> THEN [ok |-> TRUE, text |-> <<>>]
    ELSE LET b == Head(bs)
             n == IF b < 128 THEN 1
                  ELSE IF b \in 194..223 THEN 2
                  ELSE IF b \in 224..239 THEN 3
                  ELSE IF b \in 240..244 THEN 4
                  ELSE 0
             wf == /\ n > 0 /\ Len(bs) >= n
                   /\ \A k \in 2..n : bs[k] \in 128..191
                   /\ (b = 224 => bs[2] >= 160)
                   /\ (b = 237 => bs[2] <= 159)
                   /\ (b = 240 => bs[2] >= 144)
                   /\ (b = 244 => bs[2] <= 143)
             cp == IF n = 2 THEN (b - 192) * 64 + (bs[2] - 128)
                   ELSE IF n = 3
                   THEN (b - 224) * 4096 + (bs[2] - 128) * 64 + (bs[3] - 128)
                   ELSE (b - 240) * 262144 + (bs[2] - 128) * 4096
                        + (bs[3] - 128) * 64 + (bs[4] - 128)
         IN  IF ~wf THEN DecodeError
             ELSE IF n = 1 THEN Cons(Ch("ascii", b, 0), decode_utf8(Tail(bs)))
             ELSE Cons(Ch("ucs", cp, 0), decode_utf8(From(bs, n)))

\* bytes.decode("euc_jp"): ASCII, 8E + half-width katakana, and two bytes
\* A1..FE for a JIS X 0208 cell.  The three-byte form (8F + JIS X 0212) is
\* not carried by the bodies below and is not decoded here.
RECURSIVE decode_euc_jp(_)
decode_euc_jp(bs) ==
    IF bs = <<>> THEN [ok |-> TRUE, text |-> <<>>]
    ELSE LET b == Head(bs)
         IN  IF b < 128 THEN Cons(Ch("ascii", b, 0), decode_euc_jp(Tail(bs)))
             ELSE IF Len(bs) < 2 THEN DecodeError
             ELSE IF b = 142 /\ bs[2] \in 161..223
             THEN Cons(Ch("kana", bs[2], 0), decode_euc_jp(From(bs, 2)))
             ELSE IF b \in 161..254 /\ JisAssigned(b - 160, bs[2] - 160)
             THEN Cons(Ch("jis", b - 160, bs[2] - 160), decode_euc_jp(From(bs, 2)))
             ELSE DecodeError

\* the row of a Shift_JIS lead byte's first (odd) row
SjisRow(lead) == IF lead <= 159 THEN (lead - 129) * 2 + 1 ELSE (lead - 193) * 2 + 1

\* the JIS cell <<row, cell>> of a Shift_JIS double byte
SjisCell(lead, trail) ==
    IF trail >= 159 THEN << SjisRow(lead) + 1, trail - 158 >>
    ELSE IF trail >= 128 THEN << SjisRow(lead), trail - 64 >>
    ELSE << SjisRow(lead), trail - 63 >>

SjisTrail(t) == t \in (64..126) \cup (128..252)

\* bytes.decode("shift_jis")
RECURSIVE decode_shift_jis(_)
decode_shift_jis(bs) ==
    IF bs = <<>> THEN [ok |-> TRUE, text |-> <<>>]
    ELSE LET b  == Head(bs)
             rc == SjisCell(b, bs[2])
         IN  IF b < 128 THEN Cons(Ch("ascii", b, 0), decode_shift_jis(Tail(bs)))
             ELSE IF b \in 161..223
             THEN Cons(Ch("kana", b, 0), decode_shift_jis(Tail(bs)))
             ELSE IF /\ b \in (129..159) \cup (224..239)
                     /\ Len(bs) >= 2 /\ SjisTrail(bs[2])
                     /\ JisAssigned(rc[1], rc[2])
             THEN Cons(Ch("jis", rc[1], rc[2]), decode_shift_jis(From(bs, 2)))
             ELSE DecodeError

\* bytes.decode("cp932")
RECURSIVE decode_cp932(_)
decode_cp932(bs) ==
    IF bs = <<>> THEN [ok |-> TRUE, text |-> <<>>]
    ELSE LET b  == Head(bs)
             rc == SjisCell(b, bs[2])
         IN  IF b < 128 THEN Cons(Ch("ascii", b, 0), decode_cp932(Tail(bs)))
             ELSE IF b \in 161..223
             THEN Cons(Ch("kana", b, 0), decode_cp932(Tail(bs)))
             ELSE IF b \in {128, 160, 253, 254, 255}
             THEN Cons(Ch("ms", b, 0), decode_cp932(Tail(bs)))
             ELSE IF /\ b \in (129..159) \cup (224..252)
                     /\ Len(bs) >= 2 /\ SjisTrail(bs[2])
                     /\ JisAssigned(rc[1], rc[2]) \/ MsAssigned(rc[1], rc[2])
             THEN Cons(IF JisAssigned(rc[1], rc[2]) /\ rc \notin MsDiffers
                       THEN Ch("jis", rc[1], rc[2]) ELSE Ch("ms", rc[1], rc[2]),
                       decode_cp932(From(bs, 2)))
             ELSE DecodeError

\* resp.content.decode(enc)
Decode(enc, bs) ==
    CASE enc = "utf-8"     -> decode_utf8(bs)
      [] enc = "euc_jp"    -> decode_euc_jp(bs)
      [] enc = "shift_jis" -> decode_shift_jis(bs)
      [] enc = "cp932"     -> decode_cp932(bs)

\* resp.text of a body served with no charset: requests decodes it as
\* ISO-8859-1 with errors="replace", which maps every byte and cannot raise
RespText(bs) == [k \in 1..Len(bs) |-> Ch("latin1", bs[k], 0)]

\* the for loop of fetch_html from the k-th encoding on: the first decode
\* that does not raise is returned, resp.text after the last one
RECURSIVE decode_from(_, _)
decode_from(k, bs) ==
    IF k > Len(ENCODINGS) THEN [enc |-> "resp.text", text |-> RespText(bs)]
    ELSE IF Decode(ENCODINGS[k], bs).ok
    THEN [enc |-> ENCODINGS[k], text |-> Decode(ENCODINGS[k], bs).text]
    ELSE decode_from(k + 1, bs)

\* the bytes the response bodies are written with: "A"; 80 and A0, single
\* bytes of cp932 only; 81, 82 and E3, lead bytes of Shift_JIS (81 and 82
\* also UTF-8 continuation bytes, E3 also a UTF-8 and an EUC-JP lead byte);
\* A2 and A4, half-width katakana in Shift_JIS and the two bytes of a
\* JIS X 0208 cell in EUC-JP
Bytes == {65, 128, 129, 130, 160, 162, 164, 227}

\* the longest response body
MaxBytes == 3

Bodies == SeqsUpTo(Bytes, MaxBytes)

-----------------------------------------------------------------------------
(* The runs.  mode "all" is main's fetch_all(); the other modes call one   *)
(* function directly on a page (or date token) drawn from the sets above.  *)
(* pc: "loop" fetch_all's for loop, "run" an extractor's loop about to do  *)
(* an iteration, "ret" the extractor about to return events, "exc" an      *)
(* exception leaving the running function, "call" normalize_date about to  *)
(* be called, "done" the entry point finished.                             *)

LabelParsers == {"macro", "urban", "stats", "emf"}

Exceptions == {"ValueError", "RequestException"}

Pending == [kind |-> "pending", d |-> Date(0, 0, 0)]

\* no response is being decoded
NoResponse == [content |-> <<>>, enc |-> "none", text |-> <<>>]

Init ==
    /\ key = 1 /\ i = 0 /\ di = 0 /\ last_date = <<>>
    /\ events = <<>> /\ blocks = <<>> /\ visited = <<>> /\ fetched = <<>>
    /\ all_events = <<>> /\ concat = <<>> /\ exc = "none"
    /\ outcome = [k \in 1..Len(PARSERS) |-> [st |-> "pending", evs |-> <<>>]]
    /\ \/ /\ mode = "all"
          /\ TODAY \in Todays /\ isoBasic \in BOOLEAN
          /\ lines = <<>> /\ divs = <<>>
          /\ ndcall = [raw |-> <<>>, arg |-> <<>>, res |-> Pending]
          /\ resp = NoResponse
          /\ pc = "loop"
       \/ /\ mode \in LabelParsers
          /\ TODAY \in Todays /\ isoBasic = TRUE
          /\ lines \in PagesOf(SegsOf(mode)) /\ divs = <<>>
          /\ ndcall = [raw |-> <<>>, arg |-> <<>>, res |-> Pending]
          /\ resp = NoResponse
          /\ pc = IF lines = <<>> THEN "ret" ELSE "run"
       \/ /\ mode = "micro"
          /\ TODAY \in Todays /\ isoBasic \in BOOLEAN
          /\ lines = <<>> /\ divs \in MicroPages
          /\ ndcall = [raw |-> <<>>, arg |-> <<>>, res |-> Pending]
          /\ resp = NoResponse
          /\ pc = IF divs = <<>> THEN "ret" ELSE "run"
       \/ /\ mode = "normalize_date"
          /\ TODAY \in DirectTodays /\ isoBasic = TRUE
          /\ lines = <<>> /\ divs = <<>>
          /\ \E tok \in DateTokens :
               ndcall = [raw |-> tok, arg |-> <<>>, res |-> Pending]
          /\ resp = NoResponse
          /\ pc = "call"
       \/ /\ mode = "fetch_html"
          /\ TODAY \in Todays /\ isoBasic = TRUE
          /\ lines = <<>> /\ divs = <<>>
          /\ ndcall = [raw |-> <<>>, arg |-> <<>>, res |-> Pending]
          /\ \E body \in Bodies :
               resp = [content |-> body, enc |-> "none", text |-> <<>>]
          /\ pc = "call"

\* the extractor that is running
Parser == IF mode = "all" THEN PARSERS[key] ELSE mode

\* fn() is called: the extractor fetches its page and builds its line list
Call ==
    /\ mode = "all" /\ pc = "loop" /\ key <= Len(PARSERS)
    /\ \E page \in AllPages(PARSERS[key]) :
         /\ IF PARSERS[key] = "micro"
            THEN divs' = page /\ lines' = <<>>
            ELSE lines' = page /\ divs' = <<>>
         /\ pc' = IF page = <<>> THEN "ret" ELSE "run"
    /\ UNCHANGED << TODAY, isoBasic, mode, key, i, last_date, di, events,
                    blocks, visited, all_events, outcome, concat, ndcall,
                    exc, resp, fetched >>

\* fn() is called and its fetch_html raises (requests.get fails)
FetchError ==
    /\ mode = "all" /\ pc = "loop" /\ key <= Len(PARSERS)
    /\ pc' = "exc"
    /\ exc' = "RequestException"
    /\ UNCHANGED << TODAY, isoBasic, mode, key, lines, i, last_date, divs,
                    di, events, blocks, visited, all_events, outcome, concat,
                    ndcall, resp, fetched >>

\* the effect of one iteration r of a label-scanning extractor's while loop
Step(r) ==
    /\ i' = r.i
    /\ events' = events \o r.new
    /\ blocks' = blocks \o r.blk
    /\ visited' = Append(visited, i)
    /\ pc' = IF r.st \in Exceptions THEN "exc"
             ELSE IF r.st = "break" \/ r.i >= Len(lines) THEN "ret"
             ELSE "run"
    /\ exc' = IF r.st \in Exceptions THEN r.st ELSE exc
    /\ UNCHANGED << TODAY, isoBasic, mode, key, lines, divs, di, all_events,
                    outcome, concat, ndcall, resp, fetched >>

MacroIter ==
    /\ pc = "run" /\ Parser = "macro"
    /\ Step(parse_macro_iter(lines, i))
    /\ UNCHANGED last_date

UrbanIter ==
    /\ pc = "run" /\ Parser = "urban"
    /\ Step(parse_urban_iter(lines, i))
    /\ UNCHANGED last_date

StatsIter ==
    /\ pc = "run" /\ Parser = "stats"
    /\ Step(parse_stats_iter(lines, i))
    /\ UNCHANGED last_date

EmpiricalIter ==
    /\ pc = "run" /\ Parser = "emf"
    /\ LET r == parse_empirical_iter(lines, i, last_date)
       IN  Step(r) /\ last_date' = r.ld

MicroIter ==
    /\ pc = "run" /\ Parser = "micro"
    /\ LET r == parse_micro_iter(divs[di + 1], di)
       IN  /\ di' = r.i
           /\ events' = events \o r.new
           /\ blocks' = blocks \o r.blk
           /\ pc' = IF r.st \in Exceptions THEN "exc"
                    ELSE IF r.i >= Len(divs) THEN "ret"
                    ELSE "run"
           /\ exc' = IF r.st \in Exceptions THEN r.st ELSE exc
           /\ fetched' = IF micro_fetches(divs[di + 1]) THEN Append(fetched, di)
                         ELSE fetched
    /\ UNCHANGED << TODAY, isoBasic, mode, key, lines, i, last_date, divs,
                    visited, all_events, outcome, concat, ndcall, resp >>

\* the extractor returns events; in fetch_all, all_events.extend(evs)
Return ==
    /\ pc = "ret"
    /\ IF mode = "all"
       THEN /\ all_events' = all_events \o events
            /\ outcome' = [outcome EXCEPT ![key] = [st |-> "returned", evs |-> events]]
            /\ key' = key + 1
            /\ pc' = "loop"
            /\ lines' = <<>> /\ divs' = <<>> /\ i' = 0 /\ di' = 0
            /\ last_date' = <<>> /\ events' = <<>> /\ blocks' = <<>>
            /\ visited' = <<>> /\ fetched' = <<>>
       ELSE /\ pc' = "done"
            /\ UNCHANGED << all_events, outcome, key, lines, divs, i, di,
                            last_date, events, blocks, visited, fetched >>
    /\ UNCHANGED << TODAY, isoBasic, mode, concat, ndcall, exc, resp >>

\* fetch_all's except clause: the records the extractor had built are lost
Catch ==
    /\ mode = "all" /\ pc = "exc"
    /\ outcome' = [outcome EXCEPT ![key] = [st |-> "raised", evs |-> events]]
    /\ key' = AfterExcept(key)
    /\ pc' = "loop"
    /\ lines' = <<>> /\ divs' = <<>> /\ i' = 0 /\ di' = 0
    /\ last_date' = <<>> /\ events' = <<>> /\ blocks' = <<>> /\ visited' = <<>>
    /\ fetched' = <<>>
    /\ exc' = "none"
    /\ UNCHANGED << TODAY, isoBasic, mode, all_events, concat, ndcall, resp >>

\* no handler: the exception leaves the directly called function
Propagate ==
    /\ mode # "all" /\ pc = "exc"
    /\ pc' = "done"
    /\ events' = <<>> /\ blocks' = <<>>
    /\ UNCHANGED << TODAY, isoBasic, mode, key, lines, i, last_date, divs,
                    di, visited, all_events, outcome, concat, ndcall, exc,
                    resp, fetched >>

\* all_events.sort(key=lambda x: x["date"]) and return
Sort ==
    /\ mode = "all" /\ pc = "loop" /\ key > Len(PARSERS)
    /\ concat' = all_events
    /\ all_events' = SortByDate(all_events)
    /\ pc' = "done"
    /\ UNCHANGED << TODAY, isoBasic, mode, key, lines, i, last_date, divs,
                    di, events, blocks, visited, outcome, ndcall, exc, resp,
                    fetched >>

\* date_raw = strip_weekday(<the date line>); normalize_date(date_raw, base_year)
NormalizeDate ==
    /\ mode = "normalize_date" /\ pc = "call"
    /\ LET date_raw == strip_weekday(ndcall.raw)
           r == normalize_date(date_raw, base_year)
       IN  /\ ndcall' = [ndcall EXCEPT !.arg = date_raw, !.res = r]
           /\ pc' = IF r.kind = "raise" THEN "exc" ELSE "done"
           /\ exc' = IF r.kind = "raise" THEN "ValueError" ELSE exc
    /\ UNCHANGED << TODAY, isoBasic, mode, key, lines, i, last_date, divs,
                    di, events, blocks, visited, all_events, outcome, concat,
                    resp, fetched >>

\* fetch_html(url) on a response body: the body is decoded
FetchHtml ==
    /\ mode = "fetch_html" /\ pc = "call"
    /\ LET r == decode_from(1, resp.content)
       IN  resp' = [resp EXCEPT !.enc = r.enc, !.text = r.text]
    /\ pc' = "done"
    /\ UNCHANGED << TODAY, isoBasic, mode, key, lines, i, last_date, divs,
                    di, events, blocks, visited, all_events, outcome, concat,
                    ndcall, exc, fetched >>

Next ==
    \/ Call
    \/ FetchError
    \/ MacroIter
    \/ UrbanIter
    \/ StatsIter
    \/ EmpiricalIter
    \/ MicroIter
    \/ Return
    \/ Catch
    \/ Propagate
    \/ Sort
    \/ NormalizeDate
    \/ FetchHtml

Spec == Init /\ [][Next]_vars

-----------------------------------------------------------------------------
(* Properties                                                              *)

\* the calendar date a record's date string denotes ("YYYY-MM-DD" or "YYYYMMDD")
DateOfKey(s) ==
    IF Len(s) = 10
    THEN Date(NumVal(SubSeq(s, 1, 4)), NumVal(SubSeq(s, 6, 7)), NumVal(SubSeq(s, 9, 10)))
    ELSE Date(NumVal(SubSeq(s, 1, 4)), NumVal(SubSeq(s, 5, 6)), NumVal(SubSeq(s, 7, 8)))

WsNames == { "Macroeconomics WS", "Urban Economics WS", "Applied Statistics WS",
             "Empirical Micro WS", "Micro Theory WS" }

\* a label-scanning extractor is running and has emitted records
LabelRun == blocks # <<>> /\ Parser \in LabelParsers

\* C1: every record an extractor has emitted, and every record fetch_all
\* holds or returns, has a date on or after TODAY.
C1_NoPastRecord ==
    \A r \in Range(events) \cup Range(all_events) :
        DateGE(DateOfKey(r.date), TODAY)

\* fetch_all returned records of all five extractors
C1_Witness ==
    /\ mode = "all" /\ pc = "done"
    /\ \A w \in WsNames : \E r \in Range(all_events) : r.ws = w

\* the records of the extractors that returned, in execution order
RECURSIVE ReturnedUpTo(_)
ReturnedUpTo(k) ==
    IF k = 0 THEN <<>>
    ELSE ReturnedUpTo(k - 1)
         \o (IF outcome[k].st = "returned" THEN outcome[k].evs ELSE <<>>)

BagOfSeq(s) == [x \in Range(s) |-> Cardinality({ k \in 1..Len(s) : s[k] = x })]

\* C2: when fetch_all is done, whichever extractors raised, every extractor
\* was invoked, no exception is pending, and the returned list holds exactly
\* the records (with multiplicity) returned by the extractors that did not
\* raise.
C2_FailureIsolation ==
    (mode = "all" /\ pc = "done") =>
        /\ \A k \in 1..Len(PARSERS) : outcome[k].st \in {"returned", "raised"}
        /\ exc = "none"
        /\ BagOfSeq(all_events) = BagOfSeq(ReturnedUpTo(Len(PARSERS)))

\* fetch_all is done, an extractor raised after it had built a record, a
\* later extractor returned records and they are in the result
C2_Witness ==
    /\ mode = "all" /\ pc = "done"
    /\ \E k \in 1..Len(PARSERS) :
         /\ outcome[k].st = "raised" /\ outcome[k].evs # <<>>
         /\ \E j \in (k + 1)..Len(PARSERS) :
              outcome[j].st = "returned" /\ outcome[j].evs # <<>>
    /\ all_events # <<>>

\* C3: the list fetch_all returns is sorted non-decreasing by calendar date.
C3_SortedByCalendarDate ==
    (mode = "all" /\ pc = "done") =>
        \A a, b \in 1..Len(all_events) :
            a < b => ~DateLT(DateOfKey(all_events[b].date),
                             DateOfKey(all_events[a].date))

\* C4: in the list fetch_all returns, the records of any one date (the
\* records whose date field is equal) are in the order they had in the
\* concatenation built before the sort.
C4_StableTies ==
    (mode = "all" /\ pc = "done") =>
        \A r \in Range(all_events) :
            LET same(x) == x.date = r.date
            IN  SelectSeq(all_events, same) = SelectSeq(concat, same)

\* the sort moved records, and the result has two records of one date from
\* different extractors and two of one date from the same extractor
C4_Witness ==
    /\ mode = "all" /\ pc = "done"
    /\ all_events # concat
    /\ \E a, b \in 1..Len(all_events) :
         /\ a < b /\ all_events[a].date = all_events[b].date
         /\ all_events[a].ws # all_events[b].ws
    /\ \E a, b \in 1..Len(all_events) :
         /\ a < b /\ all_events[a].date = all_events[b].date
         /\ all_events[a].ws = all_events[b].ws
         /\ all_events[a].info # all_events[b].info

\* C5: a record whose captured content (for parse_micro, the speaker or the
\* title) has a line containing "TBA" in any letter case has info "TBA".
C5_TbaCollapses ==
    \A k \in 1..Len(blocks) :
        (\E c \in Range(blocks[k].content) : Contains(Lower(c), L_tba))
            => events[k].info = S_TBA

\* C6: every emitted record has a non-empty info, and no record is emitted
\* for a block whose captured lines are all empty once the quotation marks
\* are stripped.
C6_InfoNonEmpty ==
    /\ \A r \in Range(events) \cup Range(all_events) : r.info # <<>>
    /\ \A k \in 1..Len(blocks) :
         \E c \in Range(blocks[k].content) : c # <<>>

\* the calendar date a token writes out in full (year, month and day), as
\* [ok, d]: the "YYYY<U+5E74>M<U+6708>D<U+65E5>" form read with its own year,
\* and the "<Month> D, YYYY" form
WrittenDate(tok) ==
    IF LeadingDigits(tok) = 4 /\ Len(tok) >= 5 /\ tok[5] = "U5E74"
    THEN DuParse(tok, NumVal(SubSeq(tok, 1, 4)))
    ELSE LET p == DuParse(tok, 0)
         IN  IF p.ok /\ p.d.y # 0 THEN p ELSE NoDate

\* C7: a label-scanning extractor emits no record for a block whose date
\* token writes out a full calendar date that is before TODAY, whatever its
\* month.
C7_PastBlockDropped ==
    LabelRun =>
        \A k \in 1..Len(blocks) :
            LET w == WrittenDate(strip_weekday(blocks[k].tok))
            IN  ~(w.ok /\ DateLT(w.d, TODAY))

\* C8: normalize_date returns, for every token that parses to a date d
\* (base_year standing in for a missing year), d with its year incremented
\* by one when d < TODAY and d.month is in 1..3 and d itself otherwise;
\* "February 2" with TODAY = 2025-09-01 gives 2026-02-02 and the kanji form
\* of 2025-07-10 gives 2025-07-10.
C8_RolloverExact ==
    (mode = "normalize_date" /\ pc # "call") =>
        LET p == DuParse(ndcall.arg, base_year)
        IN  /\ p.ok =>
                 /\ ndcall.res.kind = "date"
                 /\ ndcall.res.d =
                      IF DateLT(p.d, TODAY) /\ p.d.m \in 1..3
                      THEN Date(p.d.y + 1, p.d.m, p.d.d) ELSE p.d
            /\ (ndcall.arg = T_Feb2 /\ TODAY = Date(2025, 9, 1))
                 => ndcall.res = [kind |-> "date", d |-> Date(2026, 2, 2)]
            /\ ndcall.arg = T_JP_Jul10
                 => ndcall.res = [kind |-> "date", d |-> Date(2025, 7, 10)]

\* C9: no date value makes normalize_date or an extractor fail: resolving a
\* date never raises.
C9_DatesNeverRaise == exc # "ValueError"

\* a line that is an "Abstract" marker (either language)
IsAbstractLine(l) == Contains(Lower(l), L_abstract) \/ Contains(l, L_youshi)

\* C10: a label-scanning extractor emits no record for a block in which the
\* line right after the speaker/report label is an "Abstract" marker.
C10_AbstractOnlyDropped ==
    LabelRun =>
        \A k \in 1..Len(blocks) :
            ~IsAbstractLine(Line(lines, blocks[k].label + 1))

\* the date portion of "July 10 (Thu) 10:25-12:10"
S_July10 == <<"J","u","l","y"," ","1","0">>

\* C11: strip_weekday leaves no parenthesised substring and leaves just the
\* date portion: "July 10 (Thu) 10:25-12:10" gives exactly "July 10".
C11_StripLeavesDate ==
    (mode = "normalize_date" /\ pc # "call") =>
        /\ ~\E a, b \in 1..Len(ndcall.arg) :
               a < b /\ ndcall.arg[a] \in OpenParens /\ ndcall.arg[b] \in CloseParens
        /\ ndcall.raw = T_Jul10Time => ndcall.arg = S_July10

\* the position of an encoding in the for loop of fetch_html
EncIndex(enc) == CHOOSE k \in 1..Len(ENCODINGS) : ENCODINGS[k] = enc

\* C12: fetch_html returns the decode of the first of UTF-8, EUC-JP,
\* Shift_JIS, CP932 (in that order) that succeeds, and resp.text without
\* raising when all four fail; and for every body that is invalid in UTF-8
\* and valid in Shift_JIS the text returned is its Shift_JIS decoding.
C12_ShiftJisDecoded ==
    (mode = "fetch_html" /\ pc = "done") =>
        LET body == resp.content
        IN  /\ exc = "none"
            /\ resp.enc \in Range(ENCODINGS) \cup {"resp.text"}
            /\ resp.enc \in Range(ENCODINGS) =>
                 /\ Decode(resp.enc, body).ok
                 /\ resp.text = Decode(resp.enc, body).text
                 /\ \A j \in 1..(EncIndex(resp.enc) - 1) : ~Decode(ENCODINGS[j], body).ok
            /\ resp.enc = "resp.text" =>
                 \A j \in 1..Len(ENCODINGS) : ~Decode(ENCODINGS[j], body).ok
            /\ (~decode_utf8(body).ok /\ decode_shift_jis(body).ok) =>
                 resp.text = decode_shift_jis(body).text

\* the calendar date of a wrapper's datetime attribute, as fromisoformat reads it
WrapperDate(div) == fromisoformat(SplitBefore(div.dt, <<"T">>))

\* the wrapper has a datetime attribute whose date is on or after TODAY
WrapperUpcoming(div) ==
    div.time /\ WrapperDate(div).ok /\ DateGE(WrapperDate(div).d, TODAY)

\* a detail page has a line with non-empty text before the workshop marker
HasSpeaker(detail) ==
    \E ln \in Range(detail) :
        Contains(ln, L_marker) /\ Strip(SplitBefore(ln, L_marker)) # <<>>

\* a detail page has a title line with non-empty text after the label
HasTitle(detail) ==
    \E ln \in Range(detail) :
        /\ StartsWith(Lower(ln), L_titlec) \/ StartsWith(Lower(ln), L_taitoru)
        /\ Strip(SplitAfter(ln, <<":">>)) # <<>>

\* C13: parse_micro emits a record only for a wrapper with a datetime on or
\* after TODAY, a detail link and a detail page giving a non-empty speaker and
\* a non-empty title; a wrapper whose detail page lacks one of the two is
\* dropped without error and the next wrapper is processed; a detail page is
\* requested only for wrappers dated on or after TODAY.
C13_MicroEmitsOnlyComplete ==
    divs # <<>> =>
        /\ \A k \in 1..Len(blocks) :
             LET div == divs[blocks[k].label + 1]
             IN  /\ WrapperUpcoming(div) /\ div.link
                 /\ HasSpeaker(div.detail) /\ HasTitle(div.detail)
                 /\ blocks[k].content[1] # <<>> /\ blocks[k].content[2] # <<>>
        /\ \A j \in 0..(Len(divs) - 1) :
             LET div == divs[j + 1]
             IN  ( /\ j < di \/ (j = di /\ pc = "exc")
                   /\ WrapperUpcoming(div) /\ div.link /\ div.fetch
                   /\ ~HasSpeaker(div.detail) \/ ~HasTitle(div.detail) )
                 => /\ j < di
                    /\ \A k \in 1..Len(blocks) : blocks[k].label # j
        /\ \A k \in 1..Len(fetched) : WrapperUpcoming(divs[fetched[k] + 1])

\* parse_micro returned: the first wrapper's detail page was requested and
\* gave no title or no speaker, the wrapper was dropped, and the second
\* wrapper gave a record
C13_Witness ==
    /\ mode = "micro" /\ pc = "done" /\ exc = "none"
    /\ Len(divs) = 2 /\ fetched = <<0, 1>>
    /\ ~HasSpeaker(divs[1].detail) \/ ~HasTitle(divs[1].detail)
    /\ Len(blocks) = 1 /\ blocks[1].label = 1

\* a line that is the terminal marker: it contains "past seminars" in any
\* letter case or, in the empirical source, the Japanese heading
IsTerminal(p, l) ==
    Contains(Lower(l), L_past) \/ (p = "emf" /\ Contains(l, L_owari))

\* C14: in a label-scanning extractor, neither the first terminal marker
\* line nor any line after it gives a date or a content line to a record:
\* every record's block ends at or before that line.
C14_TerminalMarkerEnds ==
    LabelRun =>
        \A k \in 1..Len(blocks) :
            \A m \in 0..(Len(lines) - 1) :
                IsTerminal(Parser, Line(lines, m)) => blocks[k].stop <= m

\* a line at which the capture of an event's content is to end: a date-label
\* line of the source (for the inline-date source, a line with a month-day
\* date), a venue/speaker/date field label, or an abstract marker
IsStopLine(p, l) ==
    \/ p = "macro" /\ StartsWith(Lower(l), L_date)
    \/ p \in {"urban", "stats"} /\ StartsWith(l, L_nichiji)
    \/ p = "emf" /\ emp_DATE_RE(l)
    \/ \E lab \in {L_venue, L_speaker, L_date, L_nichiji, L_houkoku} :
           StartsWith(Lower(l), lab)
    \/ IsAbstractLine(l)

\* C15: in a label-scanning extractor, the lines captured for a record (the
\* lines after its content label up to where its capture stopped) hold no
\* date-label line, no field label and no abstract marker.
C15_CaptureEndsAtLabel ==
    LabelRun =>
        \A k \in 1..Len(blocks) :
            \A m \in (blocks[k].label + 1)..(blocks[k].stop - 1) :
                ~IsStopLine(Parser, Line(lines, m))

\* a line that is a "Title" field label and nothing else
IsTitleLabel(l) == Lower(Strip(l)) \in {L_title, L_titlec, L_taitoru}

\* C16: in a label-scanning extractor a "Title" label line inside a content
\* block is skipped and the capture goes on after it: no captured line of a
\* record is a "Title" label, and every other line of the block is captured.
C16_TitleLabelSkipped ==
    LabelRun =>
        \A k \in 1..Len(blocks) :
            /\ \A c \in Range(blocks[k].content) : ~IsTitleLabel(c)
            /\ \A m \in (blocks[k].label + 1)..(blocks[k].stop - 1) :
                 \/ IsTitleLabel(Line(lines, m))
                 \/ StripSet(Line(lines, m), QuoteChars) \in Range(blocks[k].content)

\* C17: in a label-scanning extractor the scan position never decreases and
\* is strictly greater at the start of every outer iteration than at the
\* start of the one before, whatever the iteration did: no line is scanned
\* by two iterations, and there are at most as many iterations as lines.
C17_ScanAdvances ==
    lines # <<>> =>
        /\ \A a, b \in 1..Len(visited) : a < b => visited[a] < visited[b]
        /\ \A a \in 1..Len(visited) : visited[a] \in 0..(Len(lines) - 1)
        /\ visited # <<>> => i >= visited[Len(visited)]
        /\ (pc = "run" /\ visited # <<>>) => i > visited[Len(visited)]
        /\ pc = "run" => i < Len(lines)
        /\ Len(visited) <= Len(lines)

\* a label-scanning extractor returned after three or more iterations, one of
\* which consumed a whole block without emitting a record
C17_Witness ==
    /\ mode \in LabelParsers /\ pc = "done" /\ exc = "none"
    /\ Len(visited) >= 3 /\ Len(events) < 2
    /\ \E a \in 1..(Len(visited) - 1) : visited[a + 1] - visited[a] >= 3
    /\ \E a \in 1..(Len(visited) - 1) : visited[a + 1] - visited[a] = 1

\* line m (0-based) of the running extractor's page is its date label
IsDateLabel(p, l) ==
    IF p = "macro" THEN StartsWith(Lower(l), L_date) ELSE StartsWith(l, L_nichiji)

\* ... is its content label (speaker / report)
IsContentLabel(p, l) ==
    IF p = "macro" THEN StartsWith(Lower(l), L_speaker) ELSE StartsWith(l, L_houkoku)

\* the date label at position k is the last line, or from the line after its
\* date value on there is no content label that has a line after it
NoContentAhead(p, ls, k) ==
    \/ k + 1 >= Len(ls)
    \/ \A m \in (k + 2)..(Len(ls) - 1) :
           IsContentLabel(p, Line(ls, m)) =>
               /\ m = Len(ls) - 1
               /\ \A q \in (k + 2)..(m - 1) : ~IsContentLabel(p, Line(ls, q))

\* C18: parse_macro, parse_urban and parse_stats keep their positions inside
\* the line list, and an iteration that starts on a date label which is the
\* last line, or after which no content label (or no line after the content
\* label) comes before the end of the input, ends the extraction without
\* raising and with the records emitted so far.
C18_EndOfInputStops ==
    /\ [](lines # <<>> =>
            /\ i \in 0..Len(lines)
            /\ \A k \in 1..Len(blocks) :
                 blocks[k].label < blocks[k].stop /\ blocks[k].stop <= Len(lines))
    /\ [][ ( /\ pc = "run" /\ Parser \in {"macro", "urban", "stats"}
             /\ IsDateLabel(Parser, Line(lines, i))
             /\ NoContentAhead(Parser, lines, i) )
           => (pc' = "ret" /\ events' = events /\ exc' = "none" /\ i' <= Len(lines)) ]_vars

\* one of the three extractors returned a record it had emitted before an
\* iteration that started on a date label with no content label after it
C18_Witness ==
    /\ mode \in {"macro", "urban", "stats"} /\ pc = "done" /\ exc = "none"
    /\ events # <<>> /\ visited # <<>>
    /\ IsDateLabel(mode, Line(lines, visited[Len(visited)]))
    /\ visited[Len(visited)] + 1 < Len(lines)
    /\ NoContentAhead(mode, lines, visited[Len(visited)])

\* the position at which the outer iteration that built block b started: the
\* date-label line of the record
BlockStart(b) ==
    CHOOSE v \in Range(visited) :
        /\ v < b.label
        /\ \A w \in Range(visited) : w < b.label => w <= v

\* C19: in parse_macro, parse_urban and parse_stats the date and the content
\* of a record come from one block: no date-label line lies between the
\* record's date-label line and the end of its captured content.
C19_DateAndContentSameBlock ==
    (LabelRun /\ Parser # "emf") =>
        \A k \in 1..Len(blocks) :
            /\ IsDateLabel(Parser, Line(lines, BlockStart(blocks[k])))
            /\ \A m \in (BlockStart(blocks[k]) + 1)..(blocks[k].stop - 1) :
                 ~IsDateLabel(Parser, Line(lines, m))

\* C20: the info of a record of parse_micro is "TBA" exactly when the speaker
\* or the title, each on its own, contains "tba" in any letter case, and is
\* "<speaker>, <title>" for every other pair.
C20_MicroTbaPerField ==
    divs # <<>> =>
        \A k \in 1..Len(blocks) :
            LET author == blocks[k].content[1]
                title  == blocks[k].content[2]
            IN  events[k].info =
                    IF Contains(Lower(author), L_tba) \/ Contains(Lower(title), L_tba)
                    THEN S_TBA
                    ELSE author \o S_Sep \o title

=============================================================================
